---- MODULE Spec2Model ----
(***************************************************************************)
(* Model of the GPT sample code generator (src/codegen/api/googletag.ts,   *)
(* src/codegen/api/slot.ts), of the sample configuration it reads          *)
(* (model/sample-config.ts) and of the configurator page that loads the    *)
(* configuration from the URL hash.                                        *)
(*                                                                         *)
(* JavaScript objects are modelled with their identity: a slot object is   *)
(* a reference (a number of Objs), `objs` is the heap that gives every     *)
(* reference its fields, and config.slots is a sequence of references, so  *)
(* that Array.prototype.indexOf compares references as it does in the      *)
(* code.  Generated code is modelled as the very strings the functions     *)
(* return.                                                                 *)
(***************************************************************************)
EXTENDS Integers, Sequences, FiniteSets, TLC

\* Longest config.slots enumerated, and number of slot objects on the heap.
MaxSlots == 3

\* Longest config.slots of the configs the configurator shares.
MaxSharedSlots == 2

VARIABLES
  page,     \* config.page
  slots,    \* config.slots: a sequence of references to slot objects
  objs,     \* the heap: reference -> fields of the SampleSlotConfig object
  last,     \* history: the most recent call made on the generator, with its result
  pc,       \* where the configurator page is: edit, open, rendered, threw
  param,    \* the 'config' parameter of the URL hash
  loaded,   \* the page's `config` constant
  renderedWith, \* the config the configurator was rendered with
  opened    \* history: what kind of URL was opened, and the value it spells

vars == <<page, slots, objs, last, pc, param, loaded, renderedWith, opened>>

(***************************************************************************)
(* Data model                                                              *)
(***************************************************************************)

\* What JavaScript prints for an absent optional property.
Undefined == "undefined"

\* References to slot objects.
Objs == 1..MaxSlots

\* SamplePageConfig: absent, or present with sra absent / true / false.
SamplePageConfig ==
  { [defined |-> FALSE, sra |-> Undefined] } \cup
  { [defined |-> TRUE, sra |-> v] : v \in {Undefined, "true", "false"} }

\* SampleTargetingKV values used by the enumerated slots; those of kvPos
\* hold a quote and a backslash.
kvColor == [key |-> "color", value |-> [isArray |-> FALSE, items |-> <<"red">>]]
kvPos == [key |-> "pos", value |-> [isArray |-> TRUE, items |-> <<"a\"b", "c\\d">>]]

NoTargeting == [defined |-> FALSE, list |-> <<>>]

\* SampleSlotConfig objects the inputs are drawn from: a static slot and three
\* out-of-page slots, with and without targeting.
SampleSlotConfig ==
  { [adUnit |-> "/6355419/Travel", size |-> <<300, 250>>, format |-> Undefined,
     targeting |-> [defined |-> TRUE, list |-> <<kvColor>>]],
    [adUnit |-> "/6355419/Travel", size |-> <<1, 1>>, format |-> "INTERSTITIAL",
     targeting |-> NoTargeting],
    [adUnit |-> "/6355419/Travel", size |-> <<1, 1>>, format |-> "TOP_ANCHOR",
     targeting |-> [defined |-> TRUE, list |-> <<kvColor, kvPos>>]],
    [adUnit |-> "/6355419/Travel", size |-> <<1, 1>>, format |-> "REWARDED",
     targeting |-> NoTargeting] }

DefaultSlot ==
  CHOOSE s \in SampleSlotConfig : s.format = Undefined

\* SampleConfig: the object handed to every generator function.
config == [page |-> page, slots |-> slots]

\* model/settings.ts: display names of the out-of-page formats.
outOfPageFormatNames(format) ==
  CASE format = "BOTTOM_ANCHOR" -> "Bottom anchor"
    [] format = "INTERSTITIAL" -> "Interstitial"
    [] format = "REWARDED" -> "Rewarded"
    [] format = "TOP_ANCHOR" -> "Top anchor"
    [] OTHER -> Undefined

(***************************************************************************)
(* Text.  Where a string is read character by character (JSON, base64url)  *)
(* it is a sequence of characters, one per UTF-16 code unit: a printable   *)
(* ASCII character, tab, line feed and carriage return stand for           *)
(* themselves, any other code unit n is written CodeUnit(n).               *)
(***************************************************************************)
\* A code unit that no TLA+ string spells.
CodeUnit(n) == "<U+" \o ToString(n) \o ">"

\* Code 96.
GraveAccent == "<U+96>"

\* The printable ASCII characters, in code order: Ascii[i] has code 31 + i.
Ascii ==
  << " ", "!", "\"", "#", "$", "%", "&", "'", "(", ")", "*", "+", ",", "-",
     ".", "/", "0", "1", "2", "3", "4", "5", "6", "7", "8", "9", ":", ";",
     "<", "=", ">", "?", "@", "A", "B", "C", "D", "E", "F", "G", "H", "I",
     "J", "K", "L", "M", "N", "O", "P", "Q", "R", "S", "T", "U", "V", "W",
     "X", "Y", "Z", "[", "\\", "]", "^", "_", GraveAccent, "a", "b", "c", "d", "e",
     "f", "g", "h", "i", "j", "k", "l", "m", "n", "o", "p", "q", "r", "s",
     "t", "u", "v", "w", "x", "y", "z", "{", "|", "}", "~" >>

\* RFC 4648 section 5: the URL-safe base64 alphabet, in value order.
Base64UrlAlphabet ==
  << "A", "B", "C", "D", "E", "F", "G", "H", "I", "J", "K", "L", "M", "N",
     "O", "P", "Q", "R", "S", "T", "U", "V", "W", "X", "Y", "Z", "a", "b",
     "c", "d", "e", "f", "g", "h", "i", "j", "k", "l", "m", "n", "o", "p",
     "q", "r", "s", "t", "u", "v", "w", "x", "y", "z", "0", "1", "2", "3",
     "4", "5", "6", "7", "8", "9", "-", "_" >>

\* The characters of a string.
CharsOf(str) == [i \in 1..Len(str) |-> SubSeq(str, i, i)]

RECURSIVE Concat(_)
\* The string a sequence of characters spells.
Concat(chars) ==
  IF Len(chars) = 0 THEN "" ELSE Head(chars) \o Concat(Tail(chars))

DigitChars == <<"0", "1", "2", "3", "4", "5", "6", "7", "8", "9">>
DigitSet == { DigitChars[i] : i \in 1..Len(DigitChars) }
DigitValue == [c \in DigitSet |-> (CHOOSE i \in 1..Len(DigitChars) : DigitChars[i] = c) - 1]

RECURSIVE NatToChars(_)
NatToChars(n) ==
  IF n < 10 THEN <<DigitChars[n + 1]>>
  ELSE NatToChars(n \div 10) \o <<DigitChars[(n % 10) + 1]>>

RECURSIVE DigitsValue(_)
\* The number a sequence of digits writes.
DigitsValue(digits) ==
  IF Len(digits) = 0 THEN 0
  ELSE 10 * DigitsValue(SubSeq(digits, 1, Len(digits) - 1)) + DigitValue[digits[Len(digits)]]

AsciiSet == { Ascii[i] : i \in 1..Len(Ascii) }

\* String.prototype.charCodeAt, on printable ASCII.
CodeOf == [c \in AsciiSet |-> 31 + (CHOOSE i \in 1..Len(Ascii) : Ascii[i] = c)]

\* String.prototype.charCodeAt, on one character.
CharCode(c) ==
  IF c \in AsciiSet THEN CodeOf[c]
  ELSE IF c = "\t" THEN 9
  ELSE IF c = "\n" THEN 10
  ELSE IF c = "\r" THEN 13
  ELSE DigitsValue(CharsOf(SubSeq(c, 4, Len(c) - 1)))

\* String.fromCharCode, on one code unit.
CharOf(code) ==
  IF code \in 32..126 THEN Ascii[code - 31]
  ELSE IF code = 9 THEN "\t"
  ELSE IF code = 10 THEN "\n"
  ELSE IF code = 13 THEN "\r"
  ELSE CodeUnit(code)

\* U+0000..U+001F: what a JSON string may hold only as an escape.
ControlChars == { CharOf(n) : n \in 0..31 }

\* UTF-16 surrogates: the first and the second half of a pair.
HighSurrogates == { CharOf(n) : n \in 55296..56319 }
LowSurrogates == { CharOf(n) : n \in 56320..57343 }

RECURSIVE FlattenRange(_, _, _)
\* The concatenation of parts[lo..hi].
FlattenRange(parts, lo, hi) ==
  IF lo > hi THEN <<>>
  ELSE IF lo = hi THEN parts[lo]
  ELSE FlattenRange(parts, lo, (lo + hi) \div 2)
         \o FlattenRange(parts, ((lo + hi) \div 2) + 1, hi)

\* The concatenation of the sequences of `parts`.
Flatten(parts) == FlattenRange(parts, 1, Len(parts))

\* The concatenation of the sequences of `parts`, `sep` between them.
Join(parts, sep) ==
  Flatten([i \in 1..(2 * Len(parts) - 1) |->
             IF i % 2 = 1 THEN parts[(i + 1) \div 2] ELSE sep])

(***************************************************************************)
(* util/base64url.ts: base64 with the URL-safe alphabet, written without   *)
(* padding; padding is accepted when reading.  The bytes are the UTF-8     *)
(* encoding of the text (RFC 3629); where the bytes read are not UTF-8,    *)
(* the text holds U+FFFD.                                                  *)
(***************************************************************************)
Base64Value == [c \in { Base64UrlAlphabet[i] : i \in 1..Len(Base64UrlAlphabet) } |->
                  (CHOOSE i \in 1..Len(Base64UrlAlphabet) : Base64UrlAlphabet[i] = c) - 1]

RECURSIVE Pow(_, _)
Pow(b, e) == IF e = 0 THEN 1 ELSE b * Pow(b, e - 1)

\* U+FFFD, written for what is not a character.
ReplacementCode == 65533

\* The UTF-8 bytes of a text, one character per UTF-16 code unit: the two
\* halves of a surrogate pair are one code point, half a pair is U+FFFD.
Utf8Encode(text) ==
  LET n == Len(text)
      unit(i) == IF i >= 1 /\ i <= n THEN CharCode(text[i]) ELSE 0
      high(i) == unit(i) \in 55296..56319
      low(i) == unit(i) \in 56320..57343
      bytes(p) ==
        IF p < 128 THEN <<p>>
        ELSE IF p < 2048 THEN <<192 + (p \div 64), 128 + (p % 64)>>
        ELSE IF p < 65536
          THEN <<224 + (p \div 4096), 128 + ((p \div 64) % 64), 128 + (p % 64)>>
        ELSE <<240 + (p \div 262144), 128 + ((p \div 4096) % 64),
               128 + ((p \div 64) % 64), 128 + (p % 64)>>
  IN Flatten([i \in 1..n |->
       IF high(i) /\ low(i + 1)
         THEN bytes(65536 + (unit(i) - 55296) * 1024 + (unit(i + 1) - 56320))
       ELSE IF low(i) /\ high(i - 1) THEN <<>>
       ELSE IF high(i) \/ low(i) THEN bytes(ReplacementCode)
       ELSE bytes(unit(i))])

\* The text UTF-8 bytes spell.  A byte that opens no sequence, and the part
\* of a sequence that its next byte does not continue, is U+FFFD; a byte
\* 0xC2..0xF4 always opens a sequence.
Utf8Decode(bytes) ==
  LET n == Len(bytes)
      b(i) == IF i >= 1 /\ i <= n THEN bytes[i] ELSE -1
      len(i) == IF b(i) \in 194..223 THEN 2
                ELSE IF b(i) \in 224..239 THEN 3
                ELSE IF b(i) \in 240..244 THEN 4
                ELSE 0
      cont(i) == b(i) \in 128..191
      second(i) == /\ cont(i + 1)
                   /\ (b(i) = 224 => b(i + 1) >= 160)
                   /\ (b(i) = 237 => b(i + 1) <= 159)
                   /\ (b(i) = 240 => b(i + 1) >= 144)
                   /\ (b(i) = 244 => b(i + 1) <= 143)
      \* The bytes the sequence opened at i has, of the len(i) it needs.
      got(i) == IF ~second(i) THEN 1
                ELSE IF len(i) = 2 \/ ~cont(i + 2) THEN 2
                ELSE IF len(i) = 3 \/ ~cont(i + 3) THEN 3
                ELSE 4
      inside(i) == \E l \in (i - 3)..(i - 1) : len(l) > 0 /\ l + got(l) > i
      point(i) ==
        IF len(i) = 2 THEN (b(i) - 192) * 64 + (b(i + 1) - 128)
        ELSE IF len(i) = 3
          THEN (b(i) - 224) * 4096 + (b(i + 1) - 128) * 64 + (b(i + 2) - 128)
        ELSE (b(i) - 240) * 262144 + (b(i + 1) - 128) * 4096
               + (b(i + 2) - 128) * 64 + (b(i + 3) - 128)
      units(p) ==
        IF p < 65536 THEN <<CharOf(p)>>
        ELSE <<CharOf(55296 + ((p - 65536) \div 1024)), CharOf(56320 + ((p - 65536) % 1024))>>
  IN Flatten([i \in 1..n |->
       IF inside(i) THEN <<>>
       ELSE IF b(i) < 128 THEN <<CharOf(b(i))>>
       ELSE IF len(i) > 0 /\ got(i) = len(i) THEN units(point(i))
       ELSE <<CharOf(ReplacementCode)>>])

base64urlEncode(text) ==
  LET byte(octets, i) == IF i <= Len(octets) THEN octets[i] ELSE 0
      group(octets, g) ==
        byte(octets, 3 * g + 1) * 65536 + byte(octets, 3 * g + 2) * 256
          + byte(octets, 3 * g + 3)
      sextet(octets, j) == (group(octets, j \div 4) \div Pow(64, 3 - (j % 4))) % 64
      Encode(octets) ==
        [k \in 1..((4 * Len(octets) + 2) \div 3) |->
           Base64UrlAlphabet[sextet(octets, k - 1) + 1]]
  IN Encode(Utf8Encode(text))

\* The input without its trailing "=" padding.
StripPadding(text) ==
  LET n == Len(text)
      keep == CHOOSE k \in 0..n :
                /\ (k = 0 \/ text[k] # "=")
                /\ \A i \in (k + 1)..n : text[i] = "="
  IN SubSeq(text, 1, keep)

\* Mutant: every byte read is taken for a character.
base64urlDecode_latin1(text) ==
  LET body == StripPadding(text)
      n == Len(body)
      valid == /\ \A i \in 1..n : body[i] \in DOMAIN Base64Value
               /\ n % 4 # 1
      sextet(i) == IF i <= n THEN Base64Value[body[i]] ELSE 0
      group(g) == sextet(4 * g + 1) * 262144 + sextet(4 * g + 2) * 4096
                    + sextet(4 * g + 3) * 64 + sextet(4 * g + 4)
      byte(m) == (group(m \div 3) \div Pow(256, 2 - (m % 3))) % 256
  IN IF valid
       THEN [threw |-> FALSE, value |-> [k \in 1..((3 * n) \div 4) |-> CharOf(byte(k - 1))]]
       ELSE [threw |-> TRUE, value |-> <<>>]

\* [threw, value]: throws on a character outside the alphabet and on a
\* length no encoding has.
base64urlDecode(text) ==
  LET body == StripPadding(text)
      n == Len(body)
      valid == /\ \A i \in 1..n : body[i] \in DOMAIN Base64Value
               /\ n % 4 # 1
      sextet(i) == IF i <= n THEN Base64Value[body[i]] ELSE 0
      group(g) == sextet(4 * g + 1) * 262144 + sextet(4 * g + 2) * 4096
                    + sextet(4 * g + 3) * 64 + sextet(4 * g + 4)
      byte(m) == (group(m \div 3) \div Pow(256, 2 - (m % 3))) % 256
  IN IF valid
       THEN [threw |-> FALSE,
             value |-> Utf8Decode([k \in 1..((3 * n) \div 4) |-> byte(k - 1)])]
       ELSE [threw |-> TRUE, value |-> <<>>]

(***************************************************************************)
(* Natural numbers of any size: the base-10000 digits, lowest first, with  *)
(* no zero in the highest place; <<>> is 0.                                *)
(***************************************************************************)
Base == 10000

Max(S) == CHOOSE x \in S : \A y \in S : y <= x

\* a without the zeros in its highest places.
BigNorm(a) == SubSeq(a, 1, Max({0} \cup { i \in 1..Len(a) : a[i] # 0 }))

RECURSIVE MulAddRange(_, _, _, _, _)
\* The places lo..hi of a * k + c and what is carried out of them, the
\* lower half first and the upper half with what the lower carries.
MulAddRange(a, lo, hi, k, c) ==
  IF lo > hi THEN [limbs |-> <<>>, carry |-> c]
  ELSE IF lo = hi
    THEN LET v == a[lo] * k + c
         IN [limbs |-> <<v % Base>>, carry |-> v \div Base]
  ELSE LET mid == (lo + hi) \div 2
           lower == MulAddRange(a, lo, mid, k, c)
           upper == MulAddRange(a, mid + 1, hi, k, lower.carry)
       IN [limbs |-> lower.limbs \o upper.limbs, carry |-> upper.carry]

\* a * k + c, for 0 < k < Base and c < Base.
BigMulAdd(a, k, c) ==
  LET r == MulAddRange(a, 1, Len(a), k, c)
  IN IF r.carry = 0 THEN r.limbs ELSE Append(r.limbs, r.carry)

\* a < b
BigLess(a, b) ==
  \/ Len(a) < Len(b)
  \/ /\ Len(a) = Len(b)
     /\ \E i \in 1..Len(a) :
          /\ a[i] < b[i]
          /\ \A j \in (i + 1)..Len(a) : a[j] = b[j]

RECURSIVE SubRange(_, _, _, _, _)
\* The places lo..hi of a - b - borrow and what they borrow.
SubRange(a, b, lo, hi, borrow) ==
  IF lo > hi THEN [limbs |-> <<>>, borrow |-> borrow]
  ELSE IF lo = hi
    THEN LET v == a[lo] - (IF lo > Len(b) THEN 0 ELSE b[lo]) - borrow
         IN [limbs |-> <<(v + Base) % Base>>, borrow |-> IF v < 0 THEN 1 ELSE 0]
  ELSE LET mid == (lo + hi) \div 2
           lower == SubRange(a, b, lo, mid, borrow)
           upper == SubRange(a, b, mid + 1, hi, lower.borrow)
       IN [limbs |-> lower.limbs \o upper.limbs, borrow |-> upper.borrow]

\* a - b, for a >= b
BigSub(a, b) == BigNorm(SubRange(a, b, 1, Len(a), 0).limbs)

RECURSIVE BigTimesPower(_, _, _, _)
\* a * b^k, taken b^j at a time (b^j < Base).
BigTimesPower(a, b, j, k) ==
  IF Len(a) = 0 THEN <<>>
  ELSE IF k <= j THEN BigMulAdd(a, Pow(b, k), 0)
  ELSE BigTimesPower(BigTimesPower(a, b, j, k \div 2), b, j, k - (k \div 2))

BigTimesPower2(a, k) == BigTimesPower(a, 2, 13, k)
BigTimesPower5(a, k) == BigTimesPower(a, 5, 5, k)
BigTimesPower10(a, k) ==
  IF Len(a) = 0 THEN <<>>
  ELSE [i \in 1..(k \div 4) |-> 0] \o BigMulAdd(a, Pow(10, k % 4), 0)

\* The number a sequence of decimal digits writes.
BigOfDigits(digits) ==
  LET n == Len(digits)
  IN BigNorm([i \in 1..((n + 3) \div 4) |->
                DigitsValue(SubSeq(digits, Max({1, n - 4 * i + 1}), n - 4 * i + 4))])

\* The decimal digits of a number.
BigToDigits(a) ==
  LET n == Len(a)
      all == [j \in 1..(4 * n) |->
                LET v == a[n - ((j - 1) \div 4)]
                    place == 3 - ((j - 1) % 4)
                IN DigitChars[((v \div Pow(10, place)) % 10) + 1]]
  IN IF n = 0 THEN <<"0">>
     ELSE SubSeq(all, 5 - Len(NatToChars(a[n])), 4 * n)

(***************************************************************************)
(* IEEE 754 doubles.  A finite double other than 0 is f * 2^q with         *)
(* 2^52 <= f < 2^53, or with f < 2^52 and q = -1074 (subnormal).           *)
(***************************************************************************)
MinExponent == -1074
MaxExponent == 971
Two52 == BigTimesPower2(<<1>>, 52)
Two53 == BigTimesPower2(<<1>>, 53)

\* Every double is below 10^MaxMagnitude, and a number below
\* 10^(MinMagnitude - 1) is nearer to 0 than to the least double.
MaxMagnitude == 309
MinMagnitude == -323

Finite(f, q) == [kind |-> "finite", f |-> f, q |-> q]
Infinite == [kind |-> "infinite"]
DoubleZero == [kind |-> "zero"]

\* A power of two that is not above digits * 10^e, and not more than
\* four places below it: log2(10) is between 3.321928 and 3.321929.
FloorLog2(digits, e) ==
  LET places == Len(digits) + e - 1
  IN IF places >= 0 THEN (places * 3321928) \div 1000000
     ELSE (places * 3321929) \div 1000000

RECURSIVE Scale(_, _, _)
\* n / d is the value over 2^(52 + q): the q, at least MinExponent, that
\* brings n / d into [1, 2) as far as MinExponent allows.
Scale(n, d, q) ==
  IF ~BigLess(n, BigMulAdd(d, 2, 0)) THEN Scale(n, BigMulAdd(d, 2, 0), q + 1)
  ELSE IF BigLess(n, d) /\ q > MinExponent THEN Scale(BigMulAdd(n, 2, 0), d, q - 1)
  ELSE [n |-> n, d |-> d, q |-> q]

RECURSIVE Quotient(_, _, _, _)
\* `count` more binary digits of r / d, for r < 2d, after the digits f:
\* the digits, and twice what remains.  Nothing remaining, the digits that
\* follow are zeros.
Quotient(r, d, f, count) ==
  IF Len(r) = 0 THEN [f |-> BigTimesPower2(f, count), r |-> <<>>]
  ELSE IF count = 1
    THEN LET bit == ~BigLess(r, d)
             rest == IF bit THEN BigSub(r, d) ELSE r
         IN [f |-> BigMulAdd(f, 2, IF bit THEN 1 ELSE 0), r |-> BigMulAdd(rest, 2, 0)]
  ELSE LET done == Quotient(r, d, f, count \div 2)
       IN Quotient(done.r, d, done.f, count - (count \div 2))

\* The double nearest to digits * 10^e, a tie going to the even f; digits
\* start with a non-zero digit.
ToDouble(digits, e) ==
  LET magnitude == Len(digits) + e
      Rounded(f, q) ==
        IF Len(f) = 0 THEN DoubleZero
        ELSE IF f = Two53
          THEN (IF q + 1 > MaxExponent THEN Infinite ELSE Finite(Two52, q + 1))
        ELSE IF q > MaxExponent THEN Infinite
        ELSE Finite(f, q)
      Round(s, qr) ==
        Rounded(IF \/ BigLess(s.d, qr.r)
                   \/ (qr.r = s.d /\ Len(qr.f) > 0 /\ qr.f[1] % 2 = 1)
                  THEN BigMulAdd(qr.f, 1, 1) ELSE qr.f,
                s.q)
      Divide(s) == Round(s, Quotient(s.n, s.d, <<>>, 53))
      From(q0) ==
        Divide(Scale(BigTimesPower2(BigTimesPower10(BigOfDigits(digits),
                                                    IF e > 0 THEN e ELSE 0),
                                    IF q0 < 0 THEN 0 - q0 ELSE 0),
                     BigTimesPower2(BigTimesPower10(<<1>>, IF e < 0 THEN 0 - e ELSE 0),
                                    52 + (IF q0 > 0 THEN q0 ELSE 0)),
                     q0))
  IN IF magnitude > MaxMagnitude THEN Infinite
     ELSE IF magnitude < MinMagnitude THEN DoubleZero
     ELSE From(Max({FloorLog2(digits, e) - 52, MinExponent}))

\* The exact value of a finite double: the digits x of x * 10^e.
ExactDigits(double) ==
  IF double.q >= 0
    THEN [x |-> BigToDigits(BigTimesPower2(double.f, double.q)), e |-> 0]
    ELSE [x |-> BigToDigits(BigTimesPower5(double.f, 0 - double.q)), e |-> double.q]

RECURSIVE DigitsInc(_)
\* digits + 1
DigitsInc(digits) ==
  IF Len(digits) = 0 THEN <<"1">>
  ELSE IF digits[Len(digits)] = "9"
    THEN DigitsInc(SubSeq(digits, 1, Len(digits) - 1)) \o <<"0">>
  ELSE SubSeq(digits, 1, Len(digits) - 1)
         \o <<DigitChars[DigitValue[digits[Len(digits)]] + 2]>>

\* The numbers of zeros `digits` starts with, and its length without the
\* zeros it ends with.
LeadingZeros(digits) ==
  CHOOSE k \in 0..Len(digits) :
    /\ (k = Len(digits) \/ digits[k + 1] # "0")
    /\ \A i \in 1..k : digits[i] = "0"

SignificantLen(digits) ==
  CHOOSE k \in 0..Len(digits) :
    /\ (k = 0 \/ digits[k] # "0")
    /\ \A i \in (k + 1)..Len(digits) : digits[i] = "0"

RECURSIVE Shortest(_, _, _, _)
\* Number::toString, steps 5: the decimal of fewest digits that is read back
\* as `double`, the one nearest to the double if there are two, the even one
\* if they are as near.  x * 10^e is the exact value of the double, p the
\* number of digits tried.
Shortest(double, x, e, p) ==
  LET lo == SubSeq(x, 1, p)
      hi == DigitsInc(lo)
      rest == SubSeq(x, p + 1, Len(x))
      scale == e + Len(x) - p
      nearerHi == \/ DigitValue[rest[1]] > 5
                  \/ (rest[1] = "5" /\ \E i \in 2..Len(rest) : rest[i] # "0")
                  \/ (rest[1] = "5" /\ DigitValue[lo[p]] % 2 = 1)
      Pick(ok) ==
        IF ok[lo] /\ ok[hi] THEN [digits |-> IF nearerHi THEN hi ELSE lo, e |-> scale]
        ELSE IF ok[lo] THEN [digits |-> lo, e |-> scale]
        ELSE IF ok[hi] THEN [digits |-> hi, e |-> scale]
        ELSE Shortest(double, x, e, p + 1)
  IN IF p >= Len(x) THEN [digits |-> x, e |-> e]
     ELSE Pick([c \in {lo, hi} |-> ToDouble(c, scale) = double])

(***************************************************************************)
(* JSON values, JSON.stringify and JSON.parse.  A number is a double,      *)
(* written as the decimal Number::toString prints for it: m * 10^e, where  *)
(* m is the digits of the shortest decimal that is read back as the same   *)
(* double, "-" first when negative and no zero last.  -0 is 0, as === has  *)
(* it.  An object is the sequence of its own properties in JavaScript's    *)
(* property order.                                                         *)
(***************************************************************************)
Zero == [t |-> "number", m |-> <<"0">>, e |-> 0]
Infinity == [t |-> "number", nonfinite |-> "Infinity"]
NegativeInfinity == [t |-> "number", nonfinite |-> "-Infinity"]

\* A decimal of at most MaxExactDigits digits between 10^MinExactMagnitude
\* and 10^MaxExactMagnitude is the shortest decimal of the double nearest to
\* it (DBL_DIG is 15, and the doubles of that range are not subnormal).
MaxExactDigits == 15
MinExactMagnitude == -300
MaxExactMagnitude == 300

\* The number (-)digits * 10^e of a decimal d = [digits, e], written without
\* the zeros its digits end with.
Signed(neg, d) ==
  LET kept == SignificantLen(d.digits)
  IN [t |-> "number",
      m |-> (IF neg THEN <<"-">> ELSE <<>>) \o SubSeq(d.digits, 1, kept),
      e |-> d.e + Len(d.digits) - kept]

\* The number a double is, negative when neg.
NumberOfDouble(neg, double) ==
  IF double = Infinite THEN (IF neg THEN NegativeInfinity ELSE Infinity)
  ELSE IF double = DoubleZero THEN Zero
  ELSE Signed(neg, Shortest(double, ExactDigits(double).x, ExactDigits(double).e, 1))

\* The number nearest to (-)digits * 10^e.
Number(neg, digits, e) ==
  LET body == SubSeq(digits, LeadingZeros(digits) + 1, Len(digits))
      kept == SignificantLen(body)
      ex == e + Len(body) - kept
  IN IF kept = 0 THEN Zero
     ELSE IF /\ kept <= MaxExactDigits
             /\ kept + ex >= MinExactMagnitude
             /\ kept + ex <= MaxExactMagnitude
       THEN Signed(neg, [digits |-> body, e |-> e])
     ELSE NumberOfDouble(neg, ToDouble(SubSeq(body, 1, kept), ex))

\* The number m * 10^e, for an m of at most MaxExactDigits digits and an e
\* that keeps it between 10^MinExactMagnitude and 10^MaxExactMagnitude.
Decimal(m, e) ==
  IF m = 0 THEN Zero
  ELSE Signed(m < 0, [digits |-> NatToChars(IF m < 0 THEN 0 - m ELSE m), e |-> e])

JNull == [t |-> "null"]
JBool(b) == [t |-> "boolean", b |-> b]
JNum(n) == Decimal(n, 0)
JStr(s) == [t |-> "string", s |-> s]
JArr(items) == [t |-> "array", items |-> items]
JObj(members) == [t |-> "object", members |-> members]
Member(key, value) == [key |-> key, value |-> value]

\* No value: the variable was never assigned.
NoValue == [t |-> "unassigned"]

HexChars == <<"0", "1", "2", "3", "4", "5", "6", "7", "8", "9", "a", "b", "c", "d", "e", "f">>
UpperHexChars == <<"0", "1", "2", "3", "4", "5", "6", "7", "8", "9", "A", "B", "C", "D", "E", "F">>
HexSet == { HexChars[i] : i \in 1..Len(HexChars) } \cup { UpperHexChars[i] : i \in 1..Len(UpperHexChars) }
HexValue == [c \in HexSet |->
               (CHOOSE i \in 1..Len(HexChars) : HexChars[i] = c \/ UpperHexChars[i] = c) - 1]

Zeros(n) == [i \in 1..n |-> "0"]

\* Number::toString: plain digits while the decimal point lies within 21
\* places after and 6 places before the first digit, exponent form
\* otherwise.  JSON.stringify writes null for a number that is not finite.
NumberToChars(v) ==
  LET neg == v.m[1] = "-"
      sign == IF neg THEN <<"-">> ELSE <<>>
      d == IF neg THEN Tail(v.m) ELSE v.m
      k == Len(d)
      n == k + v.e
      x == IF n - 1 < 0 THEN <<"e", "-">> \o NatToChars(1 - n)
           ELSE <<"e", "+">> \o NatToChars(n - 1)
  IN IF "nonfinite" \in DOMAIN v THEN <<"n", "u", "l", "l">>
     ELSE IF v = Zero THEN <<"0">>
     ELSE IF k <= n /\ n <= 21 THEN sign \o d \o Zeros(n - k)
     ELSE IF 0 < n /\ n <= 21 THEN sign \o SubSeq(d, 1, n) \o <<".">> \o SubSeq(d, n + 1, k)
     ELSE IF -6 < n /\ n <= 0 THEN sign \o <<"0", ".">> \o Zeros(0 - n) \o d
     ELSE IF k = 1 THEN sign \o d \o x
     ELSE sign \o <<d[1], ".">> \o SubSeq(d, 2, k) \o x

\* \uXXXX, as JSON.stringify writes it.
UnicodeEscape(code) ==
  <<"\\", "u", HexChars[((code \div 4096) % 16) + 1], HexChars[((code \div 256) % 16) + 1],
    HexChars[((code \div 16) % 16) + 1], HexChars[(code % 16) + 1]>>

\* QuoteJSONString on one character of s: " and \ escaped, control
\* characters and unpaired surrogates written as escapes.
QuoteChar(s, i) ==
  LET c == s[i]
  IN IF c = "\"" \/ c = "\\" THEN <<"\\", c>>
     ELSE IF c = "\n" THEN <<"\\", "n">>
     ELSE IF c = "\t" THEN <<"\\", "t">>
     ELSE IF c = "\r" THEN <<"\\", "r">>
     ELSE IF c = CharOf(8) THEN <<"\\", "b">>
     ELSE IF c = CharOf(12) THEN <<"\\", "f">>
     ELSE IF c \in ControlChars THEN UnicodeEscape(CharCode(c))
     ELSE IF c \in HighSurrogates /\ ~(i < Len(s) /\ s[i + 1] \in LowSurrogates)
       THEN UnicodeEscape(CharCode(c))
     ELSE IF c \in LowSurrogates /\ ~(i > 1 /\ s[i - 1] \in HighSurrogates)
       THEN UnicodeEscape(CharCode(c))
     ELSE <<c>>

\* JSON.stringify of a string.
QuoteChars(s) ==
  <<"\"">> \o Join([i \in 1..Len(s) |-> QuoteChar(s, i)], <<>>) \o <<"\"">>

RECURSIVE JSONstringify(_)
JSONstringify(v) ==
  CASE v.t = "null" -> <<"n", "u", "l", "l">>
    [] v.t = "boolean" -> IF v.b THEN <<"t", "r", "u", "e">> ELSE <<"f", "a", "l", "s", "e">>
    [] v.t = "number" -> NumberToChars(v)
    [] v.t = "string" -> QuoteChars(v.s)
    [] v.t = "array" ->
         <<"[">> \o Join([i \in 1..Len(v.items) |-> JSONstringify(v.items[i])], <<",">>)
         \o <<"]">>
    [] v.t = "object" ->
         <<"{">> \o Join([i \in 1..Len(v.members) |->
                           QuoteChars(v.members[i].key) \o <<":">>
                             \o JSONstringify(v.members[i].value)], <<",">>)
         \o <<"}">>

\* The character at position i, "" past the end.
At(s, i) == IF i >= 1 /\ i <= Len(s) THEN s[i] ELSE ""

WhiteSpace == {" ", "\t", "\n", "\r"}

\* The first position from i on that holds no white space.
SkipWhiteSpace(s, i) ==
  CHOOSE j \in i..(Len(s) + 1) :
    /\ At(s, j) \notin WhiteSpace
    /\ \A k \in i..(j - 1) : s[k] \in WhiteSpace

ParseFail == [ok |-> FALSE, value |-> JNull, next |-> 0]
ParseOk(value, next) == [ok |-> TRUE, value |-> value, next |-> next]

\* Whether s holds the characters of `word` from position i.
HasWord(s, i, word) ==
  /\ i + Len(word) - 1 <= Len(s)
  /\ \A k \in 1..Len(word) : s[i + k - 1] = word[k]

RECURSIVE ScanString(_, _, _)
\* The string whose opening quote is before position i; acc is what was read.
\* Any character but a control character stands for itself.
ScanString(s, i, acc) ==
  LET c == At(s, i)
      e == At(s, i + 1)
      hex == \A k \in 2..5 : At(s, i + k) \in HexSet
      unit == HexValue[s[i + 2]] * 4096 + HexValue[s[i + 3]] * 256
                + HexValue[s[i + 4]] * 16 + HexValue[s[i + 5]]
  IN IF c = "\"" THEN ParseOk(JStr(acc), i + 1)
     ELSE IF c = "\\"
       THEN IF e \in {"\"", "\\", "/"} THEN ScanString(s, i + 2, Append(acc, e))
            ELSE IF e = "b" THEN ScanString(s, i + 2, Append(acc, CharOf(8)))
            ELSE IF e = "f" THEN ScanString(s, i + 2, Append(acc, CharOf(12)))
            ELSE IF e = "n" THEN ScanString(s, i + 2, Append(acc, "\n"))
            ELSE IF e = "r" THEN ScanString(s, i + 2, Append(acc, "\r"))
            ELSE IF e = "t" THEN ScanString(s, i + 2, Append(acc, "\t"))
            ELSE IF e = "u" /\ hex THEN ScanString(s, i + 6, Append(acc, CharOf(unit)))
            ELSE ParseFail
     ELSE IF c # "" /\ c \notin ControlChars THEN ScanString(s, i + 1, Append(acc, c))
     ELSE ParseFail

\* The end of the run of digits that starts at position d.
DigitsEnd(s, d) ==
  CHOOSE j \in d..(Len(s) + 1) :
    /\ At(s, j) \notin DigitSet
    /\ \A k \in d..(j - 1) : s[k] \in DigitSet

\* a < b, for two digit sequences of the same length.
DigitsLess(a, b) ==
  \E i \in 1..Len(a) :
    /\ DigitValue[a[i]] < DigitValue[b[i]]
    /\ \A j \in 1..(i - 1) : a[j] = b[j]

\* a < b, for two digit sequences that do not start with a zero.
IndexLess(a, b) == Len(a) < Len(b) \/ (Len(a) = Len(b) /\ DigitsLess(a, b))

\* The exponent the digits write when it is not above `limit`, and `limit`
\* when it is.
ExponentValue(digits, limit) ==
  LET body == SubSeq(digits, LeadingZeros(digits) + 1, Len(digits))
  IN IF IndexLess(NatToChars(limit), body) THEN limit ELSE DigitsValue(body)

\* -? (0 | [1-9][0-9]*) (. [0-9]+)? ([eE] [+-]? [0-9]+)?
\* An exponent above expLimit is further from the digits than any double
\* is from 1: with it or with expLimit the number is the same, 0 or an
\* infinity.
ParseNumber(s, i) ==
  LET neg == At(s, i) = "-"
      d == IF neg THEN i + 1 ELSE i
      intEnd == DigitsEnd(s, d)
      hasFrac == At(s, intEnd) = "."
      fracEnd == IF hasFrac THEN DigitsEnd(s, intEnd + 1) ELSE intEnd
      fracDigits == IF hasFrac THEN SubSeq(s, intEnd + 1, fracEnd - 1) ELSE <<>>
      hasExp == At(s, fracEnd) \in {"e", "E"}
      expNeg == At(s, fracEnd + 1) = "-"
      expStart == IF At(s, fracEnd + 1) \in {"+", "-"} THEN fracEnd + 2 ELSE fracEnd + 1
      expEnd == IF hasExp THEN DigitsEnd(s, expStart) ELSE fracEnd
      expLimit == Len(s) + MaxMagnitude - MinMagnitude
      expValue == IF hasExp THEN ExponentValue(SubSeq(s, expStart, expEnd - 1), expLimit)
                  ELSE 0
      digits == SubSeq(s, d, intEnd - 1) \o fracDigits
      exponent == (IF expNeg THEN 0 - expValue ELSE expValue) - Len(fracDigits)
  IN IF intEnd = d \/ (At(s, d) = "0" /\ intEnd > d + 1) THEN ParseFail
     ELSE IF hasFrac /\ fracEnd = intEnd + 1 THEN ParseFail
     ELSE IF hasExp /\ expEnd = expStart THEN ParseFail
     ELSE ParseOk(Number(neg, digits, exponent), expEnd)

\* An array index: the canonical decimal text of an integer below 2^32 - 1.
\* JavaScript lists such property names first, in ascending order.
MaxIndexDigits == <<"4", "2", "9", "4", "9", "6", "7", "2", "9", "4">>

IsArrayIndex(key) ==
  /\ Len(key) > 0
  /\ \A i \in 1..Len(key) : key[i] \in DigitSet
  /\ (key[1] # "0" \/ Len(key) = 1)
  /\ (key = MaxIndexDigits \/ IndexLess(key, MaxIndexDigits))

\* Object property assignment: a repeated key keeps its place and takes the
\* later value; a new array index goes before the first greater index and
\* before every other name; any other new name goes last.
PutMember(members, key, value) ==
  IF \E i \in 1..Len(members) : members[i].key = key
    THEN [i \in 1..Len(members) |->
            IF members[i].key = key THEN Member(key, value) ELSE members[i]]
  ELSE IF IsArrayIndex(key)
    THEN LET before == Cardinality({ i \in 1..Len(members) :
                                      /\ IsArrayIndex(members[i].key)
                                      /\ IndexLess(members[i].key, key) })
         IN SubSeq(members, 1, before) \o <<Member(key, value)>>
              \o SubSeq(members, before + 1, Len(members))
  ELSE Append(members, Member(key, value))

RECURSIVE ParseValue(_, _)
RECURSIVE ParseElements(_, _, _)
RECURSIVE ParseMembers(_, _, _)

ParseValue(s, i) ==
  LET j == SkipWhiteSpace(s, i)
      c == At(s, j)
  IN CASE c = "{" ->
            IF At(s, SkipWhiteSpace(s, j + 1)) = "}"
              THEN ParseOk(JObj(<<>>), SkipWhiteSpace(s, j + 1) + 1)
              ELSE ParseMembers(s, j + 1, <<>>)
       [] c = "[" ->
            IF At(s, SkipWhiteSpace(s, j + 1)) = "]"
              THEN ParseOk(JArr(<<>>), SkipWhiteSpace(s, j + 1) + 1)
              ELSE ParseElements(s, j + 1, <<>>)
       [] c = "\"" -> ScanString(s, j + 1, <<>>)
       [] c = "t" -> IF HasWord(s, j, <<"t", "r", "u", "e">>)
                       THEN ParseOk(JBool(TRUE), j + 4) ELSE ParseFail
       [] c = "f" -> IF HasWord(s, j, <<"f", "a", "l", "s", "e">>)
                       THEN ParseOk(JBool(FALSE), j + 5) ELSE ParseFail
       [] c = "n" -> IF HasWord(s, j, <<"n", "u", "l", "l">>)
                       THEN ParseOk(JNull, j + 4) ELSE ParseFail
       [] c = "-" \/ c \in DigitSet -> ParseNumber(s, j)
       [] OTHER -> ParseFail

\* The elements of an array from position i, up to its "]".
ParseElements(s, i, acc) ==
  LET r == ParseValue(s, i)
      j == SkipWhiteSpace(s, r.next)
  IN IF ~r.ok THEN ParseFail
     ELSE IF At(s, j) = "," THEN ParseElements(s, j + 1, Append(acc, r.value))
     ELSE IF At(s, j) = "]" THEN ParseOk(JArr(Append(acc, r.value)), j + 1)
     ELSE ParseFail

\* The members of an object from position i, up to its "}".
ParseMembers(s, i, acc) ==
  LET k == SkipWhiteSpace(s, i)
      key == IF At(s, k) = "\"" THEN ScanString(s, k + 1, <<>>) ELSE ParseFail
      colon == SkipWhiteSpace(s, key.next)
      r == IF key.ok /\ At(s, colon) = ":" THEN ParseValue(s, colon + 1) ELSE ParseFail
      j == SkipWhiteSpace(s, r.next)
  IN IF ~r.ok THEN ParseFail
     ELSE IF At(s, j) = ","
       THEN ParseMembers(s, j + 1, PutMember(acc, key.value.s, r.value))
     ELSE IF At(s, j) = "}"
       THEN ParseOk(JObj(PutMember(acc, key.value.s, r.value)), j + 1)
     ELSE ParseFail

\* [threw, value]: throws a SyntaxError unless the whole text is one JSON value.
JSONparse(s) ==
  LET Whole(r) ==
        IF r.ok /\ SkipWhiteSpace(s, r.next) = Len(s) + 1
          THEN [threw |-> FALSE, value |-> r.value]
          ELSE [threw |-> TRUE, value |-> NoValue]
  IN Whole(ParseValue(s, 1))

(***************************************************************************)
(* codegen/sanitize.ts: renders a value as a JavaScript literal, the way   *)
(* JSON.stringify writes it.                                               *)
(***************************************************************************)
RECURSIVE JoinComma(_)
JoinComma(strs) ==
  IF Len(strs) = 0 THEN ""
  ELSE IF Len(strs) = 1 THEN strs[1]
  ELSE strs[1] \o "," \o JoinComma(Tail(strs))

\* The characters JSON.stringify does not copy as they are.
EscapedChars == {"\"", "\\"} \cup ControlChars \cup HighSurrogates \cup LowSurrogates

\* A string of characters that are copied is the string between quotes.
sanitizeJsString(s) ==
  IF \A i \in 1..Len(s) : SubSeq(s, i, i) \notin EscapedChars
    THEN "\"" \o s \o "\""
    ELSE Concat(QuoteChars(CharsOf(s)))

\* The sizes are integers, which JSON.stringify writes in decimal.
sanitizeJsSize(size) == "[" \o JoinComma([i \in 1..Len(size) |-> ToString(size[i])]) \o "]"

sanitizeJsValue(value) ==
  IF value.isArray
    THEN "[" \o JoinComma([i \in 1..Len(value.items) |-> sanitizeJsString(value.items[i])]) \o "]"
    ELSE sanitizeJsString(value.items[1])

(***************************************************************************)
(* codegen/api/slot.ts                                                     *)
(***************************************************************************)
slotApiAddService == "addService(googletag.pubads())"

slotApiSetTargeting(kv) ==
  "setTargeting(" \o sanitizeJsString(kv.key) \o ", " \o sanitizeJsValue(kv.value) \o ")"

RECURSIVE TargetingCalls(_)
TargetingCalls(list) ==
  IF Len(list) = 0 THEN ""
  ELSE "." \o slotApiSetTargeting(Head(list)) \o TargetingCalls(Tail(list))

addInlineSlotSettings(slotConfig, slotDefinition) ==
  slotDefinition
    \o (IF objs[slotConfig].targeting.defined
          THEN TargetingCalls(objs[slotConfig].targeting.list) ELSE "")
    \o "." \o slotApiAddService \o ";"

(***************************************************************************)
(* codegen/api/pubads.ts                                                   *)
(***************************************************************************)
pubadsAddEventListener(type, content) ==
  "googletag.pubads().addEventListener('" \o type \o "', (event) => {" \o content \o "});"

(***************************************************************************)
(* codegen/api/googletag.ts                                                *)
(***************************************************************************)

\* Array.prototype.indexOf on config.slots: strict (reference) equality, the
\* 0-based position of the first match, -1 when there is none.
indexOf(list, ref) ==
  IF \E i \in 1..Len(list) : list[i] = ref
    THEN (CHOOSE i \in 1..Len(list) :
            /\ list[i] = ref
            /\ \A j \in 1..(i - 1) : list[j] # ref) - 1
    ELSE -1

\* Array.prototype.findIndex(s => !s.format) on config.slots.
findIndexNoFormat(list) ==
  IF \E i \in 1..Len(list) : objs[list[i]].format = Undefined
    THEN (CHOOSE i \in 1..Len(list) :
            /\ objs[list[i]].format = Undefined
            /\ \A j \in 1..(i - 1) : objs[list[j]].format # Undefined) - 1
    ELSE -1

getSlotIdentifer(cfg, slotConfig) ==
  "slot" \o ToString(indexOf(cfg.slots, slotConfig) + 1)

apiCmdInit == "window.googletag = window.googletag || {cmd: []}"
apiCmdPush(content) == "googletag.cmd.push(() => {" \o content \o "})"
apiDeclareSlot(id) == "let " \o id \o ": googletag.Slot|null"
apiDefineSlot(slotConfig, id) ==
  "googletag.defineSlot(" \o sanitizeJsString(objs[slotConfig].adUnit) \o ", "
    \o sanitizeJsSize(objs[slotConfig].size) \o ", '" \o id \o "')"
apiDefineOutOfPageSlot(slotConfig) ==
  "googletag.defineOutOfPageSlot(" \o sanitizeJsString(objs[slotConfig].adUnit)
    \o ", googletag.enums.OutOfPageFormat." \o objs[slotConfig].format \o ")"
apiDisplay(idOrSlot) == "googletag.display(" \o idOrSlot \o ")"
apiEnableServices == "googletag.enableServices()"

outOfPageComment(format) ==
  format \o " slots return null if the page or device does not support them."
outOfPageLoaded(format) == format \o " is loaded."
outOfPageLoadedNeedScroll(format) == outOfPageLoaded(format) \o " Scroll page to activate."
outOfPageLoadedUrl(format) ==
  "<a href=\"https://www.example.com\">" \o outOfPageLoaded(format) \o "</a>"
outOfPageLoading(format) == format \o " is loading..."
outOfPageNotSupported(format) == format \o " is not supported on this page."

statusContainer(id) == "document.getElementById('" \o id \o "')"
statusUpdate(id, content) == statusContainer(id) \o "!.innerText = '" \o content \o "'"
statusUpdateHtml(id, content) == statusContainer(id) \o "!.innerHTML = '" \o content \o "'"

\* Mutant: the TOP_ANCHOR case of the switch is missing.
getSlotOnloadCallback_noScroll(cfg, slotConfig) ==
  LET id == getSlotIdentifer(cfg, slotConfig)
      formatStr == outOfPageFormatNames(objs[slotConfig].format)
      update ==
        CASE objs[slotConfig].format = "INTERSTITIAL" ->
               statusUpdateHtml(id, outOfPageLoadedUrl(formatStr))
          [] OTHER -> statusUpdate(id, outOfPageLoaded(formatStr))
  IN "\n    if(" \o id \o " === event.slot) {\n      " \o update \o ";\n    }\n  "

getSlotOnloadCallback(cfg, slotConfig) ==
  LET id == getSlotIdentifer(cfg, slotConfig)
      formatStr == outOfPageFormatNames(objs[slotConfig].format)
      update ==
        CASE objs[slotConfig].format = "INTERSTITIAL" ->
               statusUpdateHtml(id, outOfPageLoadedUrl(formatStr))
          [] objs[slotConfig].format = "TOP_ANCHOR" ->
               statusUpdate(id, outOfPageLoadedNeedScroll(formatStr))
          [] OTHER -> statusUpdate(id, outOfPageLoaded(formatStr))
  IN "\n    if(" \o id \o " === event.slot) {\n      " \o update \o ";\n    }\n  "

cmdInit == apiCmdInit \o ";"
cmdPush(content) == apiCmdPush(content) \o ";"

enableServices == apiEnableServices \o ";"

declareSlot(cfg, slotConfig) ==
  apiDeclareSlot(getSlotIdentifer(cfg, slotConfig)) \o ";"

defineSlot(cfg, slotConfig) ==
  LET slotDef == apiDefineSlot(slotConfig, getSlotIdentifer(cfg, slotConfig)) \o "!"
  IN addInlineSlotSettings(slotConfig, slotDef)

\* The template literal of defineOutOfPageSlot, after .trim().
defineOutOfPageSlotTemplate(slotVar, formatString, slotConfig, callback) ==
  slotVar \o " = " \o apiDefineOutOfPageSlot(slotConfig) \o ";\n\n"
     \o "    // " \o outOfPageComment(formatString) \o "\n"
     \o "    if(!" \o slotVar \o ") {\n"
     \o "      " \o statusUpdate(slotVar, outOfPageNotSupported(formatString)) \o ";\n"
     \o "    } else {\n"
     \o "      " \o addInlineSlotSettings(slotConfig, slotVar) \o ";\n\n"
     \o "      " \o statusUpdate(slotVar, outOfPageLoading(formatString)) \o ";\n\n"
     \o "      " \o pubadsAddEventListener("slotOnload", callback)
     \o "\n    }"

defineOutOfPageSlot(cfg, slotConfig) ==
  defineOutOfPageSlotTemplate(
    getSlotIdentifer(cfg, slotConfig),
    outOfPageFormatNames(objs[slotConfig].format),
    slotConfig,
    getSlotOnloadCallback(cfg, slotConfig))

\* Mutant: the slot variable is named by the 0-based position.
display_zeroBased(cfg, slotConfig) ==
  LET id == "slot" \o ToString(indexOf(cfg.slots, slotConfig))
      hasFormat == objs[slotConfig].format # Undefined
      idOrSlot == IF hasFormat THEN id ELSE "'" \o id \o "'"
  IN IF hasFormat
       THEN "if (" \o idOrSlot \o ") { " \o apiDisplay(idOrSlot) \o "; }"
       ELSE apiDisplay(idOrSlot) \o ";"

\* Mutant: the null guard of out-of-page slots is missing.
display_unguarded(cfg, slotConfig) ==
  LET id == getSlotIdentifer(cfg, slotConfig)
      idOrSlot == IF objs[slotConfig].format # Undefined THEN id ELSE "'" \o id \o "'"
  IN apiDisplay(idOrSlot) \o ";"

display(cfg, slotConfig) ==
  LET id == getSlotIdentifer(cfg, slotConfig)
      hasFormat == objs[slotConfig].format # Undefined
      idOrSlot == IF hasFormat THEN id ELSE "'" \o id \o "'"
  IN IF hasFormat
       THEN "if (" \o idOrSlot \o ") { " \o apiDisplay(idOrSlot) \o "; }"
       ELSE apiDisplay(idOrSlot) \o ";"

\* What the caller of displayAll sees when config.slots[index] is undefined:
\* display reads slotConfig.format of undefined.
TypeError == "TypeError: Cannot read properties of undefined (reading 'format')"

RECURSIVE displayEach(_, _)
displayEach(cfg, list) ==
  IF Len(list) = 0 THEN ""
  ELSE display(cfg, Head(list)) \o displayEach(cfg, Tail(list))

\* Mutant: under SRA the first slot is displayed, static or not.
displayAll_firstSlot(cfg) ==
  IF cfg.page.defined /\ cfg.page.sra = "true"
    THEN IF Len(cfg.slots) = 0 THEN TypeError ELSE display(cfg, cfg.slots[1])
    ELSE displayEach(cfg, cfg.slots)

displayAll(cfg) ==
  IF cfg.page.defined /\ cfg.page.sra = "true"
    THEN LET found == findIndexNoFormat(cfg.slots)
             index == IF found = -1 THEN Len(cfg.slots) - 1 ELSE found
         IN IF index = -1 THEN TypeError ELSE display(cfg, cfg.slots[index + 1])
    ELSE displayEach(cfg, cfg.slots)

(***************************************************************************)
(* model/sample-config.ts.  A SampleConfig is plain data: it is written    *)
(* as the JSON value of its own properties, in the order they were set.    *)
(* An optional property that is absent is not a property of the value.     *)
(***************************************************************************)
targetingValueJson(value) ==
  IF value.isArray
    THEN JArr([i \in 1..Len(value.items) |-> JStr(CharsOf(value.items[i]))])
    ELSE JStr(CharsOf(value.items[1]))

targetingJson(kv) ==
  JObj(<< Member(CharsOf("key"), JStr(CharsOf(kv.key))),
          Member(CharsOf("value"), targetingValueJson(kv.value)) >>)

\* A slot object of the heap.
slotJson(slot) ==
  JObj(<< Member(CharsOf("adUnit"), JStr(CharsOf(slot.adUnit))) >>
       \o (IF slot.format = Undefined THEN <<>>
           ELSE << Member(CharsOf("format"), JStr(CharsOf(slot.format))) >>)
       \o << Member(CharsOf("size"), JArr([i \in 1..Len(slot.size) |-> JNum(slot.size[i])])) >>
       \o (IF slot.targeting.defined
             THEN << Member(CharsOf("targeting"),
                            JArr([i \in 1..Len(slot.targeting.list) |->
                                    targetingJson(slot.targeting.list[i])])) >>
             ELSE <<>>))

\* Whether a value is a SampleConfig, by the interfaces of the model:
\* SampleConfig {page?, slots, template?}, SamplePageConfig {privacy?, sra?,
\* targeting?}, SamplePrivacyConfig {ltd?, npa?, rdp?, tfcd?, tfua?},
\* SampleSlotConfig {adUnit, format?, size, targeting?}, SampleTargetingKV
\* {key, value: string|string[]}, SampleTemplateConfig {type?, target?}.
\* Typing is structural: an object has the properties the interface
\* requires, each property the interface names has its type, and further
\* properties are admitted.  A format is a member name of
\* googletag.enums.OutOfPageFormat.  A size is googletag.GeneralSize:
\* [width, height], the named size 'fluid' or ['fluid'], or an array of
\* those.  A member of the enum TemplateType is a string or a number, a
\* ts.ScriptTarget a number.
IsSampleConfig(c) ==
  LET Keys(v) == { v.members[i].key : i \in 1..Len(v.members) }
      Get(v, name) ==
        v.members[CHOOSE i \in 1..Len(v.members) : v.members[i].key = CharsOf(name)].value
      IsObject(v, required) ==
        /\ v.t = "object"
        /\ \A name \in required : CharsOf(name) \in Keys(v)
      Typed(v, name, Type(_)) == CharsOf(name) \in Keys(v) => Type(Get(v, name))
      IsBoolean(v) == v.t = "boolean"
      IsString(v) == v.t = "string"
      IsNumber(v) == v.t = "number"
      IsArrayOf(v, Type(_)) == v.t = "array" /\ \A i \in 1..Len(v.items) : Type(v.items[i])
      IsStringOrStrings(v) == IsString(v) \/ IsArrayOf(v, IsString)
      IsSampleTargetingKV(v) ==
        /\ IsObject(v, {"key", "value"})
        /\ Typed(v, "key", IsString)
        /\ Typed(v, "value", IsStringOrStrings)
      IsTargeting(v) == IsArrayOf(v, IsSampleTargetingKV)
      IsFormat(v) ==
        /\ IsString(v)
        /\ \E name \in {"BOTTOM_ANCHOR", "INTERSTITIAL", "REWARDED", "TOP_ANCHOR"} :
             v.s = CharsOf(name)
      IsFluid(v) == IsString(v) /\ v.s = CharsOf("fluid")
      IsSingleSize(v) ==
        \/ IsFluid(v)
        \/ (IsArrayOf(v, IsFluid) /\ Len(v.items) = 1)
        \/ (IsArrayOf(v, IsNumber) /\ Len(v.items) = 2)
      IsGeneralSize(v) == IsSingleSize(v) \/ IsArrayOf(v, IsSingleSize)
      IsSampleSlotConfig(v) ==
        /\ IsObject(v, {"adUnit", "size"})
        /\ Typed(v, "adUnit", IsString)
        /\ Typed(v, "format", IsFormat)
        /\ Typed(v, "size", IsGeneralSize)
        /\ Typed(v, "targeting", IsTargeting)
      IsSlots(v) == IsArrayOf(v, IsSampleSlotConfig)
      IsSamplePrivacyConfig(v) ==
        /\ IsObject(v, {})
        /\ \A flag \in {"ltd", "npa", "rdp", "tfcd", "tfua"} : Typed(v, flag, IsBoolean)
      IsSamplePageConfig(v) ==
        /\ IsObject(v, {})
        /\ Typed(v, "privacy", IsSamplePrivacyConfig)
        /\ Typed(v, "sra", IsBoolean)
        /\ Typed(v, "targeting", IsTargeting)
      IsEnumMember(v) == IsString(v) \/ IsNumber(v)
      IsSampleTemplateConfig(v) ==
        /\ IsObject(v, {})
        /\ Typed(v, "type", IsEnumMember)
        /\ Typed(v, "target", IsNumber)
  IN /\ IsObject(c, {"slots"})
     /\ Typed(c, "page", IsSamplePageConfig)
     /\ Typed(c, "slots", IsSlots)
     /\ Typed(c, "template", IsSampleTemplateConfig)

\* The configs the configurator shares are built from these.  Slots: those
\* of the generator's inputs, a fluid slot whose ad unit holds characters of
\* one to four UTF-8 bytes, a lone surrogate, a control character and U+2028,
\* a multi-size slot with an empty targeting value, and a slot whose
\* properties were set in another order, with a fractional width and a
\* height JSON writes in exponent form.
SharedSlots ==
  { slotJson(s) : s \in SampleSlotConfig }
  \cup
  { JObj(<< Member(CharsOf("adUnit"),
                   JStr(CharsOf("/6355419/Caf") \o
                        << CharOf(233), CharOf(26085), CharOf(55357), CharOf(56832),
                           CharOf(55357), CharOf(7), CharOf(127), CharOf(8232) >>)),
            Member(CharsOf("size"), JStr(CharsOf("fluid"))) >>),
    JObj(<< Member(CharsOf("adUnit"), JStr(CharsOf("/6355419/Travel/Europe"))),
            Member(CharsOf("size"),
                   JArr(<< JArr(<< JNum(300), JNum(250) >>), JArr(<< JNum(728), JNum(90) >>),
                           JStr(CharsOf("fluid")) >>)),
            Member(CharsOf("targeting"),
                   JArr(<< JObj(<< Member(CharsOf("key"), JStr(<<>>)),
                                   Member(CharsOf("value"), JArr(<<>>)) >>) >>)) >>),
    JObj(<< Member(CharsOf("size"), JArr(<< Decimal(3005, -1), Decimal(1, 21) >>)),
            Member(CharsOf("format"), JStr(CharsOf("BOTTOM_ANCHOR"))),
            Member(CharsOf("adUnit"), JStr(<<>>)) >>) }

\* Page settings and template settings of the shared configs; NoValue is the
\* absent property.  Privacy flags and targeting are written in full, in
\* part, and left out.
SharedSettings ==
  { [page |-> NoValue, template |-> NoValue],
    [page |-> JObj(<<>>), template |-> JObj(<<>>)],
    [page |-> JObj(<< Member(CharsOf("sra"), JBool(TRUE)) >>), template |-> NoValue],
    [page |-> JObj(<< Member(CharsOf("privacy"), JObj(<<>>)),
                      Member(CharsOf("sra"), JBool(FALSE)),
                      Member(CharsOf("targeting"), JArr(<<>>)) >>),
     template |-> JObj(<< Member(CharsOf("target"), JNum(2)) >>)],
    [page |-> JObj(<< Member(CharsOf("privacy"),
                             JObj(<< Member(CharsOf("ltd"), JBool(TRUE)),
                                     Member(CharsOf("npa"), JBool(FALSE)),
                                     Member(CharsOf("rdp"), JBool(TRUE)),
                                     Member(CharsOf("tfcd"), JBool(FALSE)),
                                     Member(CharsOf("tfua"), JBool(TRUE)) >>)),
                      Member(CharsOf("sra"), JBool(TRUE)),
                      Member(CharsOf("targeting"),
                             JArr(<< targetingJson(kvColor), targetingJson(kvPos) >>)) >>),
     template |-> JObj(<< Member(CharsOf("type"), JStr(CharsOf("basic"))),
                          Member(CharsOf("target"), JNum(99)) >>)] }

\* {page, slots, template}, without the properties that are absent.
Config(settings, list) ==
  JObj((IF settings.page = NoValue THEN <<>>
        ELSE << Member(CharsOf("page"), settings.page) >>)
       \o << Member(CharsOf("slots"), JArr(list)) >>
       \o (IF settings.template = NoValue THEN <<>>
           ELSE << Member(CharsOf("template"), settings.template) >>))

\* The configs the configurator is given to share: any settings, any list of
\* at most MaxSharedSlots slots.
SampleConfigs ==
  { Config(settings, list) :
      settings \in SharedSettings,
      list \in UNION { [1..k -> SharedSlots] : k \in 0..MaxSharedSlots } }

(***************************************************************************)
(* The configurator page (module initialisation): reads the 'config' hash  *)
(* parameter, decodes it and renders the configurator with the result.     *)
(***************************************************************************)


\* {slots: []}
DefaultConfig == JObj(<< Member(CharsOf("slots"), JArr(<<>>)) >>)

\* urlHash.getParameter('config'): null when the parameter is absent.
AbsentParam == [present |-> FALSE, text |-> <<>>]
Param(text) == [present |-> TRUE, text |-> text]

\* Mutant: a parameter that cannot be read falls back to the default config.
loadConfig_fallback(configParam) ==
  IF configParam.present /\ Len(configParam.text) > 0
    THEN LET decoded == base64urlDecode(configParam.text)
             parsed == IF decoded.threw THEN [threw |-> TRUE, value |-> NoValue]
                       ELSE JSONparse(decoded.value)
         IN IF parsed.threw THEN [threw |-> FALSE, value |-> DefaultConfig] ELSE parsed
    ELSE [threw |-> FALSE, value |-> DefaultConfig]

\* const config = configParam ? JSON.parse(base64url.decode(configParam)) : {slots: []}
\* [threw, value]: an exception of either call leaves the module unevaluated.
loadConfig(configParam) ==
  IF configParam.present /\ Len(configParam.text) > 0
    THEN LET decoded == base64urlDecode(configParam.text)
         IN IF decoded.threw THEN [threw |-> TRUE, value |-> NoValue]
            ELSE JSONparse(decoded.value)
    ELSE [threw |-> FALSE, value |-> DefaultConfig]

(***************************************************************************)
(* The generator as a state machine: a config is handed over and the       *)
(* exported functions are called on it, in any order.                      *)
(***************************************************************************)
NoCall == [fn |-> "none", arg |-> 0, result |-> ""]

\* config.slots up to renaming of the references: the k-th new object met
\* along the list is reference k.
SlotLists ==
  UNION { { l \in [1..n -> Objs] :
              \A i \in 1..n : l[i] <= 1 + Max({0} \cup { l[j] : j \in 1..(i - 1) }) }
          : n \in 0..MaxSlots }

\* The config handed to the generator: any page flags, any list of slot
\* objects; an object that is not in the list is a static slot.
Init ==
  /\ page \in SamplePageConfig
  /\ slots \in SlotLists
  /\ objs \in [Objs -> SampleSlotConfig]
  /\ \A r \in Objs : (\A i \in 1..Len(slots) : slots[i] # r) => objs[r] = DefaultSlot
  /\ last = NoCall
  /\ pc = "generate"
  /\ param = AbsentParam
  /\ loaded = NoValue
  /\ renderedWith = NoValue
  /\ opened = [kind |-> "none", value |-> NoValue]

\* A call returns its string; nothing else is written.
Record(fn, arg, result) ==
  /\ last' = [fn |-> fn, arg |-> arg, result |-> result]
  /\ pc = "generate"
  /\ UNCHANGED <<page, slots, objs, pc, param, loaded, renderedWith, opened>>

CallDeclareSlot ==
  \E s \in Objs : Record("declareSlot", s, declareSlot(config, s))

CallDefineSlot ==
  \E s \in Objs : Record("defineSlot", s, defineSlot(config, s))

CallDefineOutOfPageSlot ==
  \E s \in Objs : Record("defineOutOfPageSlot", s, defineOutOfPageSlot(config, s))

CallDisplay ==
  \E s \in Objs : Record("display", s, display(config, s))

CallDisplayAll ==
  Record("displayAll", 0, displayAll(config))

CallGetSlotIdentifer ==
  \E s \in Objs : Record("getSlotIdentifer", s, getSlotIdentifer(config, s))

CallAddInlineSlotSettings ==
  \E s \in Objs : Record("addInlineSlotSettings", s, addInlineSlotSettings(s, "slot"))

CallEnableServices ==
  Record("enableServices", 0, enableServices)

CallCmdInit ==
  Record("cmd.init", 0, cmdInit)

CallCmdPush ==
  Record("cmd.push", 0, cmdPush(enableServices))

Next ==
  \/ CallDeclareSlot
  \/ CallDefineSlot
  \/ CallDefineOutOfPageSlot
  \/ CallDisplay
  \/ CallDisplayAll
  \/ CallGetSlotIdentifer
  \/ CallAddInlineSlotSettings
  \/ CallEnableServices
  \/ CallCmdInit
  \/ CallCmdPush

Spec == Init /\ [][Next]_vars

(***************************************************************************)
(* The configurator page as a state machine: a URL is opened (one the       *)
(* configurator shares for a config, or any other), and the module reads   *)
(* its config from it and renders the configurator, which can share the    *)
(* config it was rendered with.                                            *)
(***************************************************************************)
Url(text, kind, value) == [param |-> Param(text), kind |-> kind, value |-> value]

\* URLs that were not written by the configurator, with the value their
\* parameter spells.  Written as they are in the URL: "e30=" is {} with
\* padding, "In8i" the string of U+007F, "IsOpIg" the string of U+00E9,
\* "IuaXpfCfmIAi" the string of U+65E5 U+1F600, "eyJzbG90..." the config
\* {"slots":[{"adUnit":"/a","size":[1e400,250]}]}, "Igki" a string holding a
\* raw tab, "e30!" and "e30af" are not base64url.
OtherUrls ==
  { [param |-> AbsentParam, kind |-> "absent", value |-> DefaultConfig],
    Url(<<>>, "empty", DefaultConfig),
    Url(CharsOf("e30="), "valid", JObj(<<>>)),
    Url(CharsOf("In8i"), "valid", JStr(<< CharOf(127) >>)),
    Url(CharsOf("IsOpIg"), "valid", JStr(<< CharOf(233) >>)),
    Url(CharsOf("IuaXpfCfmIAi"), "valid",
        JStr(<< CharOf(26085), CharOf(55357), CharOf(56832) >>)),
    Url(CharsOf("eyJzbG90cyI6W3siYWRVbml0IjoiL2EiLCJzaXplIjpbMWU0MDAsMjUwXX1dfQ"), "valid",
        JObj(<< Member(CharsOf("slots"),
                       JArr(<< JObj(<< Member(CharsOf("adUnit"), JStr(CharsOf("/a"))),
                                       Member(CharsOf("size"),
                                              JArr(<< Infinity, JNum(250) >>)) >>) >>)) >>)),
    Url(CharsOf("Igki"), "malformed", NoValue),
    Url(CharsOf("e30!"), "malformed", NoValue),
    Url(CharsOf("e30af"), "malformed", NoValue) }
  \cup
  { Url(base64urlEncode(CharsOf(u.text)), u.kind, u.value) :
      u \in
      { [text |-> "null", kind |-> "valid",
         value |-> JNull],
        [text |-> "{\"slots\":[]}", kind |-> "valid",
         value |-> DefaultConfig],
        [text |-> " { \"slots\" : [ ] } ", kind |-> "valid",
         value |-> DefaultConfig],
        [text |-> "{\"page\":{\"sra\":true},\"slots\":[]}", kind |-> "valid",
         value |-> JObj(<< Member(CharsOf("page"), JObj(<< Member(CharsOf("sra"), JBool(TRUE)) >>)),
          Member(CharsOf("slots"), JArr(<<>>)) >>)],
        [text |-> "{\"slots\":[1],\"slots\":[]}", kind |-> "valid",
         value |-> DefaultConfig],
        [text |-> "-120", kind |-> "valid",
         value |-> JNum(-120)],
        [text |-> "[\"a\\\"b\\\\c\\/d\"]", kind |-> "valid",
         value |-> JArr(<< JStr(<<"a", "\"", "b", "\\", "c", "/", "d">>) >>)],
        [text |-> "{\"a\":1.5}", kind |-> "valid",
         value |-> JObj(<< Member(CharsOf("a"), Decimal(15, -1)) >>)],
        [text |-> "[1e3,2E-1,0.0,-2.25,1E+2]", kind |-> "valid",
         value |-> JArr(<< Decimal(1, 3), Decimal(2, -1), Decimal(0, 0), Decimal(-225, -2),
          Decimal(1, 2) >>)],
        [text |-> "\"\\u0041\\b\\f\\u00e9\\u00E9\"", kind |-> "valid",
         value |-> JStr(<< "A", CharOf(8), CharOf(12), CharOf(233), CharOf(233) >>)],
        [text |-> "{\"b\":1,\"10\":2,\"9\":3}", kind |-> "valid",
         value |-> JObj(<< Member(<<"9">>, JNum(3)), Member(<<"1", "0">>, JNum(2)),
          Member(CharsOf("b"), JNum(1)) >>)],
        [text |-> "[1e400,-1e400]", kind |-> "valid",
         value |-> JArr(<< Infinity, NegativeInfinity >>)],
        [text |-> "{\"a\":1e-400}", kind |-> "valid",
         value |-> JObj(<< Member(CharsOf("a"), Zero) >>)],
        [text |-> "[1e0000000000000000000002,0.0000000001e10]", kind |-> "valid",
         value |-> JArr(<< JNum(100), JNum(1) >>)],
        [text |-> "[1e99999999999,-1E+99999999999]", kind |-> "valid",
         value |-> JArr(<< Infinity, NegativeInfinity >>)],
        [text |-> "[1e-99999999999,0e99999999999,0.000e-0]", kind |-> "valid",
         value |-> JArr(<< Zero, Zero, Zero >>)],
        [text |-> "1.", kind |-> "malformed",
         value |-> NoValue],
        [text |-> "1e", kind |-> "malformed",
         value |-> NoValue],
        [text |-> "\"\\x41\"", kind |-> "malformed",
         value |-> NoValue],
        [text |-> "\"\\u41\"", kind |-> "malformed",
         value |-> NoValue],
        [text |-> "{\"slots\":[", kind |-> "malformed",
         value |-> NoValue],
        [text |-> "{slots:[]}", kind |-> "malformed",
         value |-> NoValue],
        [text |-> "{\"slots\":[],}", kind |-> "malformed",
         value |-> NoValue],
        [text |-> "{\"slots\":[]}x", kind |-> "malformed",
         value |-> NoValue],
        [text |-> "{'slots':[]}", kind |-> "malformed",
         value |-> NoValue],
        [text |-> "[01]", kind |-> "malformed",
         value |-> NoValue],
        [text |-> "slots", kind |-> "malformed",
         value |-> NoValue],
        [text |-> " ", kind |-> "malformed",
         value |-> NoValue] } }

\* No URL is open yet; the generator is not part of the page.
InitLoad ==
  /\ page = [defined |-> FALSE, sra |-> Undefined]
  /\ slots = <<>>
  /\ objs = [r \in Objs |-> DefaultSlot]
  /\ last = NoCall
  /\ pc = "edit"
  /\ param = AbsentParam
  /\ loaded = NoValue
  /\ renderedWith = NoValue
  /\ opened = [kind |-> "none", value |-> NoValue]

\* The URL whose 'config' parameter is the JSON text of c, base64url-encoded,
\* is opened in a fresh page.
Share(c) ==
  /\ param' = Param(base64urlEncode(JSONstringify(c)))
  /\ opened' = [kind |-> "shared", value |-> c]
  /\ pc' = "open"
  /\ loaded' = NoValue
  /\ renderedWith' = NoValue
  /\ UNCHANGED <<page, slots, objs, last>>

\* The configurator shares a config.
ShareUrl ==
  /\ pc = "edit"
  /\ \E c \in SampleConfigs : Share(c)

\* The configurator shares the config it was rendered with.
ShareAgain ==
  /\ pc = "rendered"
  /\ IsSampleConfig(renderedWith)
  /\ Share(renderedWith)

\* Some other URL is opened.
OpenUrl ==
  /\ pc = "edit"
  /\ \E u \in OtherUrls :
       /\ param' = u.param
       /\ opened' = [kind |-> u.kind, value |-> u.value]
  /\ pc' = "open"
  /\ UNCHANGED <<page, slots, objs, last, loaded, renderedWith>>

\* The module body: const configParam = ...; const config = ...;
\* render(html`<sample-configurator .config="${config}">`, document.body).
\* An exception of the second statement ends the evaluation of the module.
LoadPage ==
  /\ pc = "open"
  /\ \E r \in {loadConfig(param)} :
       IF r.threw
         THEN /\ pc' = "threw"
              /\ UNCHANGED <<loaded, renderedWith>>
         ELSE /\ pc' = "rendered"
              /\ loaded' = r.value
              /\ renderedWith' = r.value
  /\ UNCHANGED <<page, slots, objs, last, param, opened>>

NextLoad ==
  \/ ShareUrl
  \/ ShareAgain
  \/ OpenUrl
  \/ LoadPage

SpecLoad == InitLoad /\ [][NextLoad]_vars

(***************************************************************************)
(* Properties                                                              *)
(***************************************************************************)

\* The positions of config.slots.
Positions == 1..Len(slots)

\* The slot SRA display prefers: the first one without an out-of-page format,
\* the last one of the list when every slot has a format.
PreferredSlot ==
  IF \E i \in Positions : objs[slots[i]].format = Undefined
    THEN slots[CHOOSE i \in Positions :
                 /\ objs[slots[i]].format = Undefined
                 /\ \A j \in 1..(i - 1) : objs[slots[j]].format # Undefined]
    ELSE slots[Len(slots)]

RECURSIVE DisplaysUpTo(_)
\* display(config, s) for the slots at positions 1..n, in that order.
DisplaysUpTo(n) ==
  IF n = 0 THEN "" ELSE DisplaysUpTo(n - 1) \o display(config, slots[n])

\* C1: displayAll(config) is display(config, s) for the one preferred slot s
\* when config.page.sra is true and config.slots is not empty, and the
\* concatenation of display(config, s) over config.slots, in slot order, when
\* sra is false or absent.
C1_DisplayAllBySra ==
  last.fn = "displayAll" =>
    IF page.defined /\ page.sra = "true"
      THEN Len(slots) > 0 => last.result = display(config, PreferredSlot)
      ELSE last.result = DisplaysUpTo(Len(slots))

\* displayAll was called under SRA on a config whose first slot is out-of-page
\* and which has a static slot further on.
C1_Witness ==
  /\ last.fn = "displayAll"
  /\ page.defined /\ page.sra = "true"
  /\ Len(slots) >= 2
  /\ objs[slots[1]].format # Undefined
  /\ \E i \in Positions : objs[slots[i]].format = Undefined

\* C2: the identifier of the slot at 0-based position i is 'slot' followed by
\* i+1, and no two positions of config.slots share an identifier, also when
\* two positions hold the same slot object.
C2_UniqueIdentifierPerPosition ==
  last.fn = "getSlotIdentifer" =>
    \A i \in Positions :
      slots[i] = last.arg =>
        /\ last.result = "slot" \o ToString(i)
        /\ \A j \in Positions \ {i} : getSlotIdentifer(config, slots[j]) # last.result

\* The string the exported function fn returns for a config and a slot.
Result(fn, cfg, s) ==
  CASE fn = "declareSlot" -> declareSlot(cfg, s)
    [] fn = "defineSlot" -> defineSlot(cfg, s)
    [] fn = "defineOutOfPageSlot" -> defineOutOfPageSlot(cfg, s)
    [] fn = "display" -> display(cfg, s)
    [] fn = "displayAll" -> displayAll(cfg)
    [] fn = "getSlotIdentifer" -> getSlotIdentifer(cfg, s)
    [] fn = "addInlineSlotSettings" -> addInlineSlotSettings(s, "slot")
    [] fn = "enableServices" -> enableServices
    [] fn = "cmd.init" -> cmdInit
    [] fn = "cmd.push" -> cmdPush(enableServices)

RECURSIVE FiniteNumbers(_)
\* Every number of a value is finite.
FiniteNumbers(v) ==
  CASE v.t = "number" -> "nonfinite" \notin DOMAIN v
    [] v.t = "array" -> \A i \in 1..Len(v.items) : FiniteNumbers(v.items[i])
    [] v.t = "object" -> \A i \in 1..Len(v.members) : FiniteNumbers(v.members[i].value)
    [] OTHER -> TRUE

\* C4 as claimed: every config serialised into the 'config' hash parameter
\* and loaded by the page comes back structurally equal.
C4_RoundTripOfEveryConfig ==
  (opened.kind = "shared" /\ pc \in {"rendered", "threw"}) =>
    /\ pc = "rendered"
    /\ loaded = opened.value

\* C4: a config whose numbers are all finite, serialised into the 'config'
\* hash parameter and loaded by the page, comes back structurally equal: same
\* page settings, same slots in the same order with the same adUnit, size,
\* format and targeting, same template settings.
C4_RoundTrip ==
  (opened.kind = "shared" /\ FiniteNumbers(opened.value) /\ pc \in {"rendered", "threw"}) =>
    /\ pc = "rendered"
    /\ loaded = opened.value

\* A shared config with page and template settings and two different slots,
\* one of them with a string that is not ASCII, was loaded and rendered.
C4_Witness ==
  /\ opened.kind = "shared"
  /\ pc = "rendered"
  /\ FiniteNumbers(opened.value)
  /\ \E settings \in SharedSettings, list \in [1..2 -> SharedSlots] :
       /\ settings.page # NoValue
       /\ settings.template # NoValue
       /\ list[1] # list[2]
       /\ \E i \in 1..2 : \E k \in 1..Len(list[i].members) :
            /\ list[i].members[k].value.t = "string"
            /\ \E n \in 1..Len(list[i].members[k].value.s) :
                 CharCode(list[i].members[k].value.s[n]) > 127
       /\ opened.value = Config(settings, list)

\* C5: loading has three outcomes.  Absent or empty parameter: the config is
\* {slots: []} and the configurator is rendered with it.  Parameter that
\* decodes to JSON: the config is the parsed value and the configurator is
\* rendered with it.  Malformed parameter: the load throws, no config is
\* assigned, and the configurator is not rendered then or later.
C5_ThreeOutcomes ==
  /\ pc \in {"rendered", "threw"} =>
       CASE opened.kind \in {"absent", "empty"} -> pc = "rendered" /\ loaded = DefaultConfig
         [] opened.kind = "valid" -> pc = "rendered" /\ loaded = opened.value
         [] opened.kind = "shared" -> pc = "rendered"
         [] OTHER -> pc = "threw" /\ loaded = NoValue
  /\ pc = "rendered" => renderedWith = loaded
  /\ pc # "rendered" => renderedWith = NoValue
  /\ pc = "threw" => ~ENABLED NextLoad

\* A malformed parameter was opened and the load threw.
C5_Witness ==
  /\ opened.kind = "malformed"
  /\ pc = "threw"
  /\ param.present /\ Len(param.text) > 0

\* The identifiers getSlotIdentifer can return.
SlotIds == { "slot" \o ToString(n) : n \in 0..MaxSlots }

\* The status update of the slotOnload callback, by format.
ExpectedStatusUpdate(id, format) ==
  LET name == outOfPageFormatNames(format)
  IN CASE format = "INTERSTITIAL" ->
            "document.getElementById('" \o id \o "')!.innerHTML = '"
              \o "<a href=\"https://www.example.com\">" \o name \o " is loaded.</a>'"
       [] format = "TOP_ANCHOR" ->
            "document.getElementById('" \o id \o "')!.innerText = '"
              \o name \o " is loaded. Scroll page to activate.'"
       [] OTHER ->
            "document.getElementById('" \o id \o "')!.innerText = '" \o name \o " is loaded.'"

\* The slotOnload callback body: one status update under the event.slot guard.
ExpectedCallback(id, format) ==
  "\n    if(" \o id \o " === event.slot) {\n      "
    \o ExpectedStatusUpdate(id, format) \o ";\n    }\n  "

\* C6: for every out-of-page slot s of config.slots there is one identifier
\* that declareSlot declares, that defineOutOfPageSlot assigns and
\* null-checks, that the slotOnload callback compares with event.slot and
\* that display tests and passes to googletag.display.
C6_OneSlotVariable ==
  \A i \in Positions :
    objs[slots[i]].format # Undefined =>
      \E id \in SlotIds :
        /\ declareSlot(config, slots[i]) = "let " \o id \o ": googletag.Slot|null;"
        /\ getSlotOnloadCallback(config, slots[i]) = ExpectedCallback(id, objs[slots[i]].format)
        /\ defineOutOfPageSlot(config, slots[i]) =
             defineOutOfPageSlotTemplate(id, outOfPageFormatNames(objs[slots[i]].format),
                                         slots[i], ExpectedCallback(id, objs[slots[i]].format))
        /\ display(config, slots[i]) = "if (" \o id \o ") { googletag.display(" \o id \o "); }"

\* defineOutOfPageSlot was called for an out-of-page slot that is not the
\* first of config.slots.
C6_Witness ==
  /\ last.fn = "defineOutOfPageSlot"
  /\ objs[last.arg].format # Undefined
  /\ indexOf(slots, last.arg) >= 1

\* C7: display(config, slot) is 'if (<id>) { googletag.display(<id>); }' for a
\* slot with an out-of-page format and "googletag.display('<id>');" for a slot
\* without one: one display call either way.
C7_DisplayByFormat ==
  last.fn = "display" =>
    LET id == getSlotIdentifer(config, last.arg)
    IN IF objs[last.arg].format # Undefined
         THEN last.result = "if (" \o id \o ") { googletag.display(" \o id \o "); }"
         ELSE last.result = "googletag.display('" \o id \o "');"

\* display was called for an out-of-page slot of the config.
C7_Witness ==
  /\ last.fn = "display"
  /\ objs[last.arg].format # Undefined
  /\ indexOf(slots, last.arg) >= 0

\* C8: the slotOnload callback of an out-of-page slot holds exactly one status
\* update, chosen by the format (INTERSTITIAL: innerHTML with a link;
\* TOP_ANCHOR: innerText with the scroll hint; any other: innerText), on the
\* element whose id is the slot's identifier, under 'if(<id> === event.slot)'.
C8_StatusUpdateByFormat ==
  /\ \A s \in Objs :
       objs[s].format # Undefined =>
         getSlotOnloadCallback(config, s)
           = ExpectedCallback(getSlotIdentifer(config, s), objs[s].format)
  /\ (last.fn = "defineOutOfPageSlot" /\ objs[last.arg].format # Undefined) =>
       last.result =
         defineOutOfPageSlotTemplate(
           getSlotIdentifer(config, last.arg), outOfPageFormatNames(objs[last.arg].format),
           last.arg,
           ExpectedCallback(getSlotIdentifer(config, last.arg), objs[last.arg].format))

\* defineOutOfPageSlot was called for a TOP_ANCHOR slot of the config.
C8_Witness ==
  /\ last.fn = "defineOutOfPageSlot"
  /\ objs[last.arg].format = "TOP_ANCHOR"
  /\ indexOf(slots, last.arg) >= 0
====
